---- MODULE Spec2Model ----
(***************************************************************************)
(* Model of the model-preparation pipeline of optimum-benchmark:           *)
(*   - ORTBackend.__init__  (backends/onnxruntime/backend.py)              *)
(*   - OVBackend.__init__   (backends/openvino/backend.py)                 *)
(*   - run_experiment       (main.py)                                      *)
(* One behaviour is one call of run_experiment: the backend is constructed *)
(* (its __init__ performs the whole setup), then the try block runs        *)
(* configure, run, save and clean.  Calls into external libraries          *)
(* (from_pretrained, optimizer, quantizer, dataset generator) either       *)
(* return or raise.                                                        *)
(***************************************************************************)
EXTENDS Integers, Sequences, FiniteSets, TLC

VARIABLES
    kind,             \* backend class resolved from experiment.backend._target_
    config,           \* self.config (model and export are rewritten in place)
    config0,          \* the configuration as it was handed to the constructor
    pc,               \* position in run_experiment / __init__
    tmpdir,           \* self.tmpdir: "unset" (no attribute), "exists", "cleaned"
    dirs,             \* subdirectories created inside the workspace
    files,            \* directory path -> set of files it holds
    model_class,      \* self.ortmodel_class / self.ovmodel_class
    pretrained_model, \* self.pretrained_model
    original_model,   \* local original_model of __init__
    original_export,  \* local original_export of __init__
    nw_original,      \* locals original_model/original_export of the no-weights loaders
    opt_config,       \* local optimization_config of optimize_onnx_files
    quant_config,     \* local quantization_config of quantize_onnx_files
    calib_config,     \* local calibration_config of quantize_onnx_files
    random_init,      \* the random_init_weights() context is active
    todo,             \* components the quantization loop has still to visit
    quantized,        \* quantizer.quantize calls so far: component and its calibration range
    trace,            \* stage operations performed so far, in order
    loads,            \* from_pretrained calls performed so far, in order
    exc,              \* exception that left the last failing call ("none" if none)
    caught,           \* the exception the except clause of run_experiment caught first
    e,                \* local e of run_experiment
    raised_error,     \* local raised_error of run_experiment
    clean_calls,      \* number of backend.clean() calls
    clean_log,        \* per clean() call: tmpdir before it, whether it returned, whether gc ran
    main_trace,       \* calls run_experiment has made on backend and benchmark, in order
    setup,            \* the constructor: "running", "ready" or "failed"
    outcome,          \* how run_experiment ended: "running", "returned" or the exception raised
    library,          \* self.config.library
    device,           \* self.config.device
    signature,        \* the input names the model at config.model declares, and under which attribute
    inference_mode,   \* torch's inference mode is on in the calling thread
    last_call         \* the last prepare_inputs / facade call: its arguments and what it did

vars == <<kind, config, config0, pc, tmpdir, dirs, files, model_class,
          pretrained_model, original_model, original_export, nw_original,
          opt_config, quant_config, calib_config, random_init, todo, quantized, trace,
          loads, exc, caught, e, raised_error, clean_calls, clean_log, main_trace,
          setup, outcome, library, device, signature, inference_mode, last_call>>

\* ------------------------------------------------------------------ bounds
\* Largest number of ordinary (non decoder) graph files in an exported model.
MaxComponents == 2
\* Largest number of clean() calls the owner of a backend object makes.
MaxCleanCalls == 2

\* --------------------------------------------------------------- constants
None == "None"
Unbound == "unbound"
NoModel == [path |-> "none", export |-> FALSE, cls |-> "none",
            providers |-> << >>, model_save_dir |-> "none"]

HubModel == "hub/model-id"
SaveDir == "export/model_save_dir"
NoWeightsDir == "tmpdir/no_weights_model"
OptimizedDir == "tmpdir/optimized"
QuantizedDir == "tmpdir/quantized_model"
Paths == {HubModel, SaveDir, NoWeightsDir, OptimizedDir, QuantizedDir}

File(name, ext) == [name |-> name, ext |-> ext]
ONNX_DECODER_NAME == File("decoder_model", "onnx")
ONNX_DECODER_WITH_PAST_NAME == File("decoder_with_past_model", "onnx")
ConfigJson == File("config", "json")
Safetensors == File("model", "safetensors")

\* Loader tables of the two backends (backends/*/utils.py).
TASKS_TO_ORTSD == [t \in {"stable-diffusion"} |-> "ORTStableDiffusionPipeline"]
TASKS_TO_ORTMODELS == [t \in {"text-generation"} |-> "ORTModelForCausalLM"]
TASKS_TO_OVMODEL == [t \in {"stable-diffusion", "text-generation"} |->
                        IF t = "stable-diffusion" THEN "OVStableDiffusionPipeline"
                        ELSE "OVModelForCausalLM"]
\* Backend.automodel_class, set by the base class (backends/base.py).
AutoModelClass == "AutoModelForCausalLM"

Tasks == {"stable-diffusion", "text-generation", "image-to-video"}
Providers == {"CPUExecutionProvider", "CUDAExecutionProvider"}
\* Provider lists an inference session can report: CPU is always the fallback.
ProviderLists == {<<"CPUExecutionProvider">>,
                  <<"CUDAExecutionProvider", "CPUExecutionProvider">>}

OVGraph == File("openvino_model", "xml")

\* Directory listings an export can produce.
Listings ==
    { {File("model_" \o ToString(i), "onnx") : i \in 1..n}
        \cup (IF d THEN {ONNX_DECODER_NAME, ONNX_DECODER_WITH_PAST_NAME} ELSE {})
        \cup {ConfigJson} : <<n, d>> \in {x \in (0..MaxComponents) \X BOOLEAN :
                                            x[1] > 0 \/ x[2]} }

\* ------------------------------------------------------ inference inputs
PROBLEMATIC_INPUTS == {"token_type_ids", "position_ids"}

InputKeys == {"input_ids", "attention_mask", "token_type_ids", "position_ids", "prompt"}
Devices == {"cpu", "cuda"}
Libraries == {"transformers", "diffusers"}

\* A mapping of keyword arguments: key -> value, Absent for a key the mapping
\* does not have.  An input's value is where the tensor is; the caller builds
\* the tensors on the cpu.
Absent == "absent"
Keys(m) == {k \in DOMAIN m : m[k] # Absent}
InputMappings == {[k \in InputKeys |-> IF k \in ks THEN "cpu" ELSE Absent] :
                    ks \in SUBSET InputKeys}
NoInputs == [k \in InputKeys |-> Absent]

KwargNames == {"max_new_tokens"}
NoKwargs == [k \in KwargNames |-> Absent]
NoTarget == [capability |-> "none", inputs |-> NoInputs, kwargs |-> NoKwargs]
NoCall == [op |-> "none", inputs |-> NoInputs, kwargs |-> NoKwargs,
           target |-> NoTarget, mode |-> FALSE,
           result |-> [raised |-> "none", value |-> NoInputs]]

\* ---------------------------------------------------------- configuration
ORTConfigs ==
    [model : {HubModel}, export : BOOLEAN, task : Tasks, no_weights : BOOLEAN,
     optimization : BOOLEAN, auto_optimization : {None, "O2"},
     quantization : BOOLEAN, auto_quantization : {None, "avx2"},
     calibration : BOOLEAN, auto_calibration : {None, "minmax"},
     use_merged : BOOLEAN, provider : Providers]

\* OVConfig has no optimization, auto preset or provider field.
OVConfigs ==
    [model : {HubModel}, export : BOOLEAN, task : Tasks, no_weights : BOOLEAN,
     optimization : {FALSE}, auto_optimization : {None},
     quantization : BOOLEAN, auto_quantization : {None},
     calibration : BOOLEAN, auto_calibration : {None},
     use_merged : {FALSE}, provider : {"CPUExecutionProvider"}]

\* ------------------------------------------------------- pure definitions
is_optimized(cfg) == (cfg.auto_optimization # None) \/ cfg.optimization
is_quantized(cfg) == (cfg.auto_quantization # None) \/ cfg.quantization
is_calibrated(cfg) == (cfg.auto_calibration # None) \/ cfg.calibration

\* onnx_files_names: the listing of config.model, filtered.
onnx_files_names(cfg, fs) ==
    IF cfg.use_merged
    THEN {f \in fs[cfg.model] :
            f \notin {ONNX_DECODER_NAME, ONNX_DECODER_WITH_PAST_NAME} /\ f.ext = "onnx"}
    ELSE {f \in fs[cfg.model] : f.ext = "onnx"}

\* Mutant: the manual flag is tested before the auto preset.
OptimizationPath_manual_first(cfg) ==
    IF cfg.optimization THEN "manual"
    ELSE IF cfg.auto_optimization # None THEN "auto" ELSE Unbound

\* The if/elif chains that bind the stage configurations.
OptimizationPath(cfg) ==
    IF cfg.auto_optimization # None THEN "auto"
    ELSE IF cfg.optimization THEN "manual" ELSE Unbound

\* Mutant: the elif branch for the manual flag is missing.
QuantizationPath_auto_only(cfg) ==
    IF cfg.auto_quantization # None THEN "auto" ELSE Unbound

QuantizationPath(cfg) ==
    IF cfg.auto_quantization # None THEN "auto"
    ELSE IF cfg.quantization THEN "manual" ELSE Unbound

CalibrationPath(cfg) ==
    IF cfg.auto_calibration # None THEN "auto"
    ELSE IF cfg.calibration THEN "manual" ELSE Unbound

\* Where from_pretrained leaves the model it loaded: an exported or downloaded
\* model sits in a directory of its own, a local directory is used in place.
ModelSaveDir(cfg) == IF cfg.export \/ cfg.model = HubModel THEN SaveDir ELSE cfg.model

\* from_pretrained without export needs a graph file in a local directory.
LoadCanSucceed(cfg, fs) ==
    cfg.export \/ cfg.model = HubModel \/ (\E f \in fs[cfg.model] : f.ext \in {"onnx", "xml"})

\* Provider lists a session created for the configured provider can report.
SessionProviders(cfg) ==
    {p \in ProviderLists : p[1] = "CPUExecutionProvider" \/ p[1] = cfg.provider}

\* An arbitrary but fixed visiting order of a set (os.listdir order).
RECURSIVE SetToSeq(_)
SetToSeq(S) == IF S = {} THEN << >>
               ELSE LET x == CHOOSE y \in S : TRUE IN <<x>> \o SetToSeq(S \ {x})

\* ------------------------------------------------------------------- Init
InitBackend ==
    /\ kind \in {"ort", "ov"}
    /\ config \in (IF kind = "ort" THEN ORTConfigs ELSE OVConfigs)
    /\ config0 = config
    /\ pc = IF kind = "ort" THEN "o_validate_task" ELSE "v_validate_task"
    /\ tmpdir = "unset"
    /\ dirs = {}
    /\ files = [p \in Paths |-> {}]
    /\ model_class = Unbound
    /\ pretrained_model = NoModel
    /\ original_model = Unbound
    /\ original_export = Unbound
    /\ nw_original = [model |-> Unbound, export |-> Unbound]
    /\ opt_config = Unbound
    /\ quant_config = Unbound
    /\ calib_config = Unbound
    /\ random_init = FALSE
    /\ todo = << >>
    /\ quantized = << >>
    /\ trace = << >>
    /\ loads = << >>
    /\ exc = "none"
    /\ caught = "none"
    /\ e = Unbound
    /\ raised_error = Unbound
    /\ clean_calls = 0
    /\ clean_log = << >>
    /\ main_trace = << >>
    /\ setup = "running"
    /\ outcome = "running"
    /\ last_call = NoCall

\* The constructor reads the model's input names only to prune the columns
\* of the calibration dataset, and config.device only as an argument passed on
\* to the optimizer and the calibrator: one value of each stands for all.
Init ==
    /\ InitBackend
    /\ library \in Libraries
    /\ device = "cpu"
    /\ signature = [attr |-> "none", names |-> {}]
    /\ inference_mode = FALSE

\* ------------------------------------------------------ shared fragments
mainVars == <<caught, e, raised_error, clean_calls, clean_log, main_trace>>
facadeVars == <<library, device, signature, inference_mode, last_call>>
stageVars == <<opt_config, quant_config, calib_config, todo, quantized>>

\* An exception leaves __init__.  The constructor call (main.py line 110) is
\* outside the try block of run_experiment, so it leaves run_experiment too.
SetupFails(x) ==
    /\ exc' = x
    /\ setup' = "failed"
    /\ outcome' = x
    /\ pc' = "m_end"

SetupGoes(next) ==
    /\ pc' = next
    /\ UNCHANGED <<exc, setup, outcome>>

\* cls.from_pretrained(cfg.model, export=cfg.export, ...) at call site `site`:
\* records the call, and on success replaces self.pretrained_model.
FromPretrained(cfg, cls, site, ok, listing, provs) ==
    /\ loads' = Append(loads, [path |-> cfg.model, export |-> cfg.export,
                               cls |-> cls, site |-> site,
                               random_init |-> random_init, ok |-> ok])
    /\ IF ok
       THEN /\ pretrained_model' = [path |-> cfg.model, export |-> cfg.export,
                                    cls |-> cls, providers |-> provs,
                                    model_save_dir |-> ModelSaveDir(cfg)]
            /\ files' = IF ModelSaveDir(cfg) = SaveDir
                        THEN [files EXCEPT ![SaveDir] = listing] ELSE files
       ELSE UNCHANGED <<pretrained_model, files>>

\* The listings a load can leave in its model_save_dir.
LoadListings(cfg) == IF ModelSaveDir(cfg) = SaveDir THEN Listings
                     ELSE {files[ModelSaveDir(cfg)]}

\* The outcomes a load can have: it returns (TRUE) or raises (FALSE).
LoadOutcomes(cfg) == {b \in BOOLEAN : b => LoadCanSucceed(cfg, files)}

\* TemporaryDirectory.cleanup(): the whole tree goes.
WorkspaceDirs == {NoWeightsDir, OptimizedDir, QuantizedDir}
Cleanup(fs) == [p \in Paths |-> IF p \in WorkspaceDirs THEN {} ELSE fs[p]]

\* create_no_weights_model: the state dict, and for transformers the
\* pretrained config, are saved into the directory.
NoWeightsFiles(lib) ==
    {Safetensors} \cup (IF lib = "transformers" THEN {ConfigJson} ELSE {})

\* Mutant: the test is negated.
NoWeightsRequested_negated(cfg) == ~cfg.no_weights

\* if self.config.no_weights, after the workspace is created.
NoWeightsRequested(cfg) == cfg.no_weights

\* ============================================================ ORTBackend
\* Mutant: an unknown task falls back to a generic loader instead of raising.
ORT_loader_class_fallback(task) ==
    IF task \in DOMAIN TASKS_TO_ORTSD THEN TASKS_TO_ORTSD[task]
    ELSE IF task \in DOMAIN TASKS_TO_ORTMODELS THEN TASKS_TO_ORTMODELS[task]
    ELSE "ORTModel"

\* The class validate_task resolves for a task (Unbound: it raises).
ORT_loader_class(task) ==
    IF task \in DOMAIN TASKS_TO_ORTSD THEN TASKS_TO_ORTSD[task]
    ELSE IF task \in DOMAIN TASKS_TO_ORTMODELS THEN TASKS_TO_ORTMODELS[task]
    ELSE Unbound

\* validate_task (called first in __init__).
ORT_validate_task ==
    /\ pc = "o_validate_task"
    /\ trace' = Append(trace, "validate_task")
    /\ IF ORT_loader_class(config.task) # Unbound
       THEN model_class' = ORT_loader_class(config.task) /\ SetupGoes("o_tmpdir")
       ELSE UNCHANGED model_class /\ SetupFails("NotImplementedError(task)")
    /\ UNCHANGED <<kind, config, config0, tmpdir, dirs, files, pretrained_model,
                   original_model, original_export, nw_original, random_init,
                   loads, stageVars, mainVars, facadeVars>>

\* Session options, then self.tmpdir = TemporaryDirectory(), then the branch
\* on no_weights.
ORT_create_tmpdir ==
    /\ pc = "o_tmpdir"
    /\ tmpdir' = "exists"
    /\ trace' = Append(trace, "create_tmpdir")
    /\ SetupGoes(IF NoWeightsRequested(config) THEN "o_nw_create" ELSE "o_load")
    /\ UNCHANGED <<kind, config, config0, dirs, files, model_class, pretrained_model,
                   original_model, original_export, nw_original, random_init,
                   loads, stageVars, mainVars, facadeVars>>

\* create_no_weights_model, then entering random_init_weights() and
\* repointing config.model at the synthetic directory.
ORT_create_no_weights_model ==
    /\ pc = "o_nw_create"
    /\ dirs' = dirs \cup {NoWeightsDir}
    /\ files' = [files EXCEPT ![NoWeightsDir] = NoWeightsFiles(library)]
    /\ trace' = Append(trace, "create_no_weights_model")
    /\ random_init' = TRUE
    /\ nw_original' = [nw_original EXCEPT !.model = config.model]
    /\ config' = [config EXCEPT !.model = NoWeightsDir]
    /\ SetupGoes("o_nw_load")
    /\ UNCHANGED <<kind, config0, tmpdir, model_class, pretrained_model,
                   original_model, original_export, loads, stageVars, mainVars, facadeVars>>

\* Mutant: the context is released only when the load returns.
RandomInitAfterLoad_leaks_on_failure(ok) == ~ok

\* Leaving `with random_init_weights():` - on return and on an exception alike.
RandomInitAfterLoad(ok) == FALSE

\* load_ortmodel_from_pretrained inside the with block, then the restore of
\* config.model; the context is left on return and on failure alike.
ORT_load_with_no_weights ==
    /\ pc = "o_nw_load"
    /\ trace' = Append(trace, "load")
    /\ \E ok \in LoadOutcomes(config),
          listing \in LoadListings(config), provs \in SessionProviders(config) :
          /\ FromPretrained(config, model_class, "init", ok, listing, provs)
          /\ random_init' = RandomInitAfterLoad(ok)
          /\ IF ok
             THEN /\ config' = [config EXCEPT !.model = nw_original.model]
                  /\ SetupGoes("o_repoint")
             ELSE /\ UNCHANGED config
                  /\ SetupFails("LoadError")
    /\ UNCHANGED <<kind, config0, tmpdir, dirs, model_class, original_model,
                   original_export, nw_original, stageVars, mainVars, facadeVars>>

\* load_ortmodel_from_pretrained on the configured model.
ORT_load_from_pretrained ==
    /\ pc = "o_load"
    /\ trace' = Append(trace, "load")
    /\ \E ok \in LoadOutcomes(config),
          listing \in LoadListings(config), provs \in SessionProviders(config) :
          /\ FromPretrained(config, model_class, "init", ok, listing, provs)
          /\ IF ok THEN SetupGoes("o_repoint") ELSE SetupFails("LoadError")
    /\ UNCHANGED <<kind, config, config0, tmpdir, dirs, model_class, original_model,
                   original_export, nw_original, random_init, stageVars, mainVars, facadeVars>>

\* Mutant: a calibration request alone also enters the Quantize stage.
ORT_next_stage_calibrated(after) ==
    IF after = "load" /\ is_optimized(config) THEN "o_optimize"
    ELSE IF after \in {"load", "optimize"}
            /\ (is_quantized(config) \/ is_calibrated(config)) THEN "o_quantize"
    ELSE IF is_optimized(config) \/ is_quantized(config) THEN "o_reload"
    ELSE "o_validate_provider"

\* Mutant: the Quantize stage is an elif of the Optimize stage.
ORT_next_stage_elif(after) ==
    IF after = "load" /\ is_optimized(config) THEN "o_optimize"
    ELSE IF after = "load" /\ is_quantized(config) THEN "o_quantize"
    ELSE IF is_optimized(config) \/ is_quantized(config) THEN "o_reload"
    ELSE "o_validate_provider"

\* The pc that follows the optional stages from position `after`.
ORT_next_stage(after) ==
    IF after = "load" /\ is_optimized(config) THEN "o_optimize"
    ELSE IF after \in {"load", "optimize"} /\ is_quantized(config) THEN "o_quantize"
    ELSE IF is_optimized(config) \/ is_quantized(config) THEN "o_reload"
    ELSE "o_validate_provider"

\* if is_optimized or is_quantized: save config.model, repoint it at the
\* loaded model's directory.
ORT_repoint ==
    /\ pc = "o_repoint"
    /\ IF is_optimized(config) \/ is_quantized(config)
       THEN /\ original_model' = config.model
            /\ config' = [config EXCEPT !.model = pretrained_model.model_save_dir]
       ELSE UNCHANGED <<original_model, config>>
    /\ SetupGoes(ORT_next_stage("load"))
    /\ UNCHANGED <<kind, config0, tmpdir, dirs, files, model_class, pretrained_model,
                   original_export, nw_original, random_init, trace, loads,
                   stageVars, mainVars, facadeVars>>

\* Mutant: config.model is not advanced to the optimized directory.
AfterOptimize_not_advanced(cfg) == cfg

\* self.config.model = self.optimized_model
AfterOptimize(cfg) == [cfg EXCEPT !.model = OptimizedDir]

\* optimize_onnx_files, then config.model = self.optimized_model.
ORT_optimize_onnx_files ==
    /\ pc = "o_optimize"
    /\ trace' = Append(trace, "optimize")
    /\ opt_config' = OptimizationPath(config)
    /\ dirs' = dirs \cup {OptimizedDir}
    /\ \E ok \in BOOLEAN :
          IF ok
          THEN /\ files' = [files EXCEPT ![OptimizedDir] =
                               onnx_files_names(config, files) \cup {ConfigJson}]
               /\ config' = AfterOptimize(config)
               /\ SetupGoes(ORT_next_stage("optimize"))
          ELSE /\ UNCHANGED <<files, config>>
               /\ SetupFails("OptimizeError")
    /\ UNCHANGED <<kind, config0, tmpdir, model_class, pretrained_model,
                   original_model, original_export, nw_original, random_init,
                   loads, quant_config, calib_config, todo, quantized, mainVars, facadeVars>>

\* Mutant: the guard lets two components through.
CalibrationUnsupported_off_by_one(cfg, fs) ==
    is_calibrated(cfg) /\ Cardinality(onnx_files_names(cfg, fs)) > 2

\* The guard of quantize_onnx_files: calibration on more than one component.
CalibrationUnsupported(cfg, fs) ==
    is_calibrated(cfg) /\ Cardinality(onnx_files_names(cfg, fs)) > 1

\* quantize_onnx_files, entry: the calibration guard on multi-component models.
ORT_quantize_guard ==
    /\ pc = "o_quantize"
    /\ trace' = Append(trace, "quantize")
    /\ IF CalibrationUnsupported(config, files)
       THEN SetupFails("NotImplementedError(calibration)")
       ELSE SetupGoes("q_config")
    /\ UNCHANGED <<kind, config, config0, tmpdir, dirs, files, model_class,
                   pretrained_model, original_model, original_export, nw_original,
                   random_init, loads, stageVars, mainVars, facadeVars>>

\* quantize_onnx_files: the quantization configuration (auto preset or manual).
ORT_quantization_config ==
    /\ pc = "q_config"
    /\ quant_config' = QuantizationPath(config)
    /\ IF is_calibrated(config)
       THEN SetupGoes("q_dataset") /\ UNCHANGED todo
       ELSE SetupGoes("q_loop") /\ todo' = SetToSeq(onnx_files_names(config, files))
    /\ UNCHANGED <<kind, config, config0, tmpdir, dirs, files, model_class,
                   pretrained_model, original_model, original_export, nw_original,
                   random_init, trace, loads, opt_config, calib_config, quantized,
                   mainVars, facadeVars>>

\* quantize_onnx_files, if is_calibrated: DatasetGenerator(...)() and the
\* pruning of its columns.
ORT_calibration_dataset ==
    /\ pc = "q_dataset"
    /\ trace' = Append(trace, "generate_dataset")
    /\ \E ok \in BOOLEAN :
          IF ok THEN SetupGoes("q_calibration") ELSE SetupFails("DatasetError")
    /\ UNCHANGED <<kind, config, config0, tmpdir, dirs, files, model_class,
                   pretrained_model, original_model, original_export, nw_original,
                   random_init, loads, stageVars, mainVars, facadeVars>>

\* quantize_onnx_files, if is_calibrated: the calibration configuration
\* (auto method or manual), then the loop is entered.
ORT_calibration_config ==
    /\ pc = "q_calibration"
    /\ calib_config' = CalibrationPath(config)
    /\ todo' = SetToSeq(onnx_files_names(config, files))
    /\ SetupGoes("q_loop")
    /\ UNCHANGED <<kind, config, config0, tmpdir, dirs, files, model_class,
                   pretrained_model, original_model, original_export, nw_original,
                   random_init, trace, loads, opt_config, quant_config, quantized,
                   mainVars, facadeVars>>

\* Mutant: only the manual calibration flag makes the loop fit.
FitRequested_manual_only(cfg) == cfg.calibration

\* The test inside the loop: if self.is_calibrated.
FitRequested(cfg) == is_calibrated(cfg)

\* One iteration of the loop over onnx_files_names: the quantizer is made,
\* fitted if is_calibrated, and run.
ORT_quantize_component ==
    /\ pc = "q_loop"
    /\ todo # << >>
    /\ LET f == Head(todo)
           fit == FitRequested(config)
       IN \E res \in {"ok", "quantize_raises"}
                       \cup (IF fit THEN {"fit_raises"} ELSE {}) :
             /\ trace' = trace \o (IF fit THEN <<"fit">> ELSE << >>)
                               \o (IF res = "fit_raises" THEN << >> ELSE <<"quantize_component">>)
             /\ IF res = "fit_raises"
                THEN /\ UNCHANGED <<quantized, dirs, files, todo>>
                     /\ SetupFails("FitError")
                ELSE /\ quantized' = Append(quantized,
                            [file |-> f,
                             source |-> config.model,
                             config |-> quant_config,
                             range |-> IF fit THEN calib_config ELSE None])
                     /\ dirs' = dirs \cup {QuantizedDir}
                     /\ IF res = "ok"
                        THEN /\ files' = [files EXCEPT ![QuantizedDir] = @ \cup {f}]
                             /\ todo' = Tail(todo)
                             /\ SetupGoes("q_loop")
                        ELSE /\ UNCHANGED <<files, todo>>
                             /\ SetupFails("QuantizeError")
    /\ UNCHANGED <<kind, config, config0, tmpdir, model_class, pretrained_model,
                   original_model, original_export, nw_original, random_init,
                   loads, opt_config, quant_config, calib_config, mainVars, facadeVars>>

\* After the loop: processor and config are saved next to the quantized
\* graphs; back in __init__, config.model = self.quantized_model.
ORT_quantize_save ==
    /\ pc = "q_loop"
    /\ todo = << >>
    /\ trace' = Append(trace, "save_metadata")
    /\ dirs' = dirs \cup {QuantizedDir}
    /\ files' = [files EXCEPT ![QuantizedDir] = @ \cup {ConfigJson}]
    /\ config' = [config EXCEPT !.model = QuantizedDir]
    /\ SetupGoes("o_reload")
    /\ UNCHANGED <<kind, config0, tmpdir, model_class, pretrained_model,
                   original_model, original_export, nw_original, random_init,
                   loads, stageVars, mainVars, facadeVars>>

\* Mutant: export is not forced off for the reload.
ReloadConfig_keeps_export(cfg) == cfg

\* original_export, self.config.export = self.config.export, False
ReloadConfig(cfg) == [cfg EXCEPT !.export = FALSE]

\* Mutant: only the model field is put back.
RestoreConfig_model_only(cfg, om, oe) == [cfg EXCEPT !.model = om]

\* self.config.model, self.config.export = original_model, original_export
RestoreConfig(cfg, om, oe) == [cfg EXCEPT !.model = om, !.export = oe]

\* if is_optimized or is_quantized: export is forced off, the produced
\* artifact is loaded, then config.model and config.export are restored.
ORT_reload ==
    /\ pc = "o_reload"
    /\ trace' = Append(trace, "reload")
    /\ original_export' = config.export
    /\ LET cfg == ReloadConfig(config)
       IN \E ok \in LoadOutcomes(cfg), listing \in LoadListings(cfg),
             provs \in SessionProviders(cfg) :
             /\ FromPretrained(cfg, model_class, "reload", ok, listing, provs)
             /\ IF ok
                THEN /\ config' = RestoreConfig(cfg, original_model, config.export)
                     /\ SetupGoes("o_validate_provider")
                ELSE /\ config' = cfg
                     /\ SetupFails("LoadError")
    /\ UNCHANGED <<kind, config0, tmpdir, dirs, model_class, original_model,
                   nw_original, random_init, stageVars, mainVars, facadeVars>>

\* Mutant: the last provider of the list is compared.
ProviderIsFirst_last(model, cfg) == model.providers[Len(model.providers)] = cfg.provider

\* validate_provider: the first provider of the held model is the configured one.
ProviderIsFirst(model, cfg) == model.providers[1] = cfg.provider

ORT_validate_provider ==
    /\ pc = "o_validate_provider"
    /\ trace' = Append(trace, "validate_provider")
    /\ IF ProviderIsFirst(pretrained_model, config)
       THEN SetupGoes("o_cleanup")
       ELSE SetupFails("ValueError(provider)")
    /\ UNCHANGED <<kind, config, config0, tmpdir, dirs, files, model_class,
                   pretrained_model, original_model, original_export, nw_original,
                   random_init, loads, stageVars, mainVars, facadeVars>>

\* self.tmpdir.cleanup(), the last statement of __init__: the backend is ready.
ORT_cleanup ==
    /\ pc = "o_cleanup"
    /\ trace' = Append(trace, "cleanup")
    /\ tmpdir' = "cleaned"
    /\ dirs' = {}
    /\ files' = Cleanup(files)
    /\ setup' = "ready"
    /\ pc' = "m_configure"
    /\ UNCHANGED <<kind, config, config0, model_class, pretrained_model,
                   original_model, original_export, nw_original, random_init,
                   loads, stageVars, mainVars, facadeVars, exc, outcome>>

\* ============================================================= OVBackend
\* The class validate_task resolves for a task (Unbound: it raises).
OV_loader_class(task) ==
    IF task \notin DOMAIN TASKS_TO_OVMODEL THEN Unbound ELSE TASKS_TO_OVMODEL[task]

\* validate_task (called first in __init__).
OV_validate_task ==
    /\ pc = "v_validate_task"
    /\ trace' = Append(trace, "validate_task")
    /\ IF OV_loader_class(config.task) = Unbound
       THEN UNCHANGED model_class /\ SetupFails("NotImplementedError(task)")
       ELSE model_class' = OV_loader_class(config.task) /\ SetupGoes("v_tmpdir")
    /\ UNCHANGED <<kind, config, config0, tmpdir, dirs, files, pretrained_model,
                   original_model, original_export, nw_original, random_init,
                   loads, stageVars, mainVars, facadeVars>>

\* Thread options, then self.tmpdir = TemporaryDirectory(), then the branch
\* on quantization and no_weights.
OV_create_tmpdir ==
    /\ pc = "v_tmpdir"
    /\ tmpdir' = "exists"
    /\ trace' = Append(trace, "create_tmpdir")
    /\ SetupGoes(IF NoWeightsRequested(config) THEN "v_nw_create"
                 ELSE IF config.quantization THEN "v_auto_load" ELSE "v_load")
    /\ UNCHANGED <<kind, config, config0, dirs, files, model_class, pretrained_model,
                   original_model, original_export, nw_original, random_init,
                   loads, stageVars, mainVars, facadeVars>>

\* create_no_weights_model, then entering random_init_weights() and
\* repointing config.model (and, for the OVModel loader, forcing export on).
\* Mutant: the no-weights load keeps the configured export value.
NoWeightsExport_configured(cfg) == cfg.export

\* load_ovmodel_with_no_weights: self.config.export = True for the load.
NoWeightsExport(cfg) == TRUE

OV_create_no_weights_model ==
    /\ pc = "v_nw_create"
    /\ dirs' = dirs \cup {NoWeightsDir}
    /\ files' = [files EXCEPT ![NoWeightsDir] = NoWeightsFiles(library)]
    /\ trace' = Append(trace, "create_no_weights_model")
    /\ random_init' = TRUE
    /\ IF config.quantization
       THEN /\ nw_original' = [nw_original EXCEPT !.model = config.model]
            /\ config' = [config EXCEPT !.model = NoWeightsDir]
            /\ SetupGoes("v_auto_nw_load")
       ELSE /\ nw_original' = [model |-> config.model, export |-> config.export]
            /\ config' = [config EXCEPT !.model = NoWeightsDir,
                                         !.export = NoWeightsExport(config)]
            /\ SetupGoes("v_nw_load")
    /\ UNCHANGED <<kind, config0, tmpdir, model_class, pretrained_model,
                   original_model, original_export, loads, stageVars, mainVars, facadeVars>>

\* self.automodel_class.from_pretrained(config.model, **hub_kwargs): the
\* framework model, loaded with the base class's loader, without export.
AutoFromPretrained(cfg, site, ok) ==
    /\ loads' = Append(loads, [path |-> cfg.model, export |-> FALSE,
                               cls |-> AutoModelClass, site |-> site,
                               random_init |-> random_init, ok |-> ok])
    /\ IF ok
       THEN pretrained_model' = [path |-> cfg.model, export |-> FALSE,
                                 cls |-> AutoModelClass, providers |-> << >>,
                                 model_save_dir |-> "none"]
       ELSE UNCHANGED pretrained_model

\* load_automodel_with_no_weights: the load inside the with block, the restore
\* of config.model, then tie_weights.
OV_load_automodel_with_no_weights ==
    /\ pc = "v_auto_nw_load"
    /\ trace' = Append(trace, "load")
    /\ \E ok \in BOOLEAN :
          /\ AutoFromPretrained(config, "init", ok)
          /\ random_init' = RandomInitAfterLoad(ok)
          /\ IF ok
             THEN /\ config' = [config EXCEPT !.model = nw_original.model]
                  /\ SetupGoes("v_quantize")
             ELSE /\ UNCHANGED config
                  /\ SetupFails("LoadError")
    /\ UNCHANGED <<kind, config0, tmpdir, dirs, files, model_class, original_model,
                   original_export, nw_original, stageVars, mainVars, facadeVars>>

\* load_automodel_from_pretrained on the configured model.
OV_load_automodel_from_pretrained ==
    /\ pc = "v_auto_load"
    /\ trace' = Append(trace, "load")
    /\ \E ok \in BOOLEAN :
          /\ AutoFromPretrained(config, "init", ok)
          /\ IF ok THEN SetupGoes("v_quantize") ELSE SetupFails("LoadError")
    /\ UNCHANGED <<kind, config, config0, tmpdir, dirs, files, model_class,
                   original_model, original_export, nw_original, random_init,
                   stageVars, mainVars, facadeVars>>

\* quantize_automodel: the quantizer is made from the held framework model,
\* the calibration dataset is generated if config.calibration, the model is
\* quantized into the workspace.
OV_quantize_automodel ==
    /\ pc = "v_quantize"
    /\ quant_config' = "manual"
    /\ \E res \in {"ok", "quantize_raises"}
                    \cup (IF config.calibration THEN {"dataset_raises"} ELSE {}) :
          /\ trace' = trace \o <<"quantize">>
                            \o (IF config.calibration THEN <<"generate_dataset">> ELSE << >>)
                            \o (IF res = "dataset_raises" THEN << >>
                                ELSE <<"quantize_component">>)
          /\ IF res = "ok"
             THEN /\ dirs' = dirs \cup {QuantizedDir}
                  /\ files' = [files EXCEPT ![QuantizedDir] = {OVGraph, ConfigJson}]
                  /\ SetupGoes("v_reload")
             ELSE /\ UNCHANGED <<dirs, files>>
                  /\ SetupFails(IF res = "dataset_raises" THEN "DatasetError"
                                ELSE "QuantizeError")
    /\ UNCHANGED <<kind, config, config0, tmpdir, model_class, pretrained_model,
                   original_model, original_export, nw_original, random_init,
                   loads, opt_config, calib_config, todo, quantized, mainVars, facadeVars>>

\* config.model is pointed at the quantized directory and export forced off,
\* the OVModel is loaded, then both fields are restored.
OV_reload ==
    /\ pc = "v_reload"
    /\ trace' = Append(trace, "reload")
    /\ original_model' = config.model
    /\ original_export' = config.export
    /\ LET cfg == [config EXCEPT !.model = QuantizedDir, !.export = FALSE]
       IN \E ok \in LoadOutcomes(cfg) :
             /\ FromPretrained(cfg, model_class, "reload", ok, {OVGraph, ConfigJson}, << >>)
             /\ IF ok
                THEN /\ config' = RestoreConfig(cfg, config.model, config.export)
                     /\ SetupGoes("v_cleanup")
                ELSE /\ config' = cfg
                     /\ SetupFails("LoadError")
    /\ UNCHANGED <<kind, config0, tmpdir, dirs, model_class, nw_original,
                   random_init, stageVars, mainVars, facadeVars>>

\* load_ovmodel_with_no_weights: the load inside the with block, then the
\* restore of config.model and config.export.
OV_load_ovmodel_with_no_weights ==
    /\ pc = "v_nw_load"
    /\ trace' = Append(trace, "load")
    /\ \E ok \in LoadOutcomes(config) :
          /\ FromPretrained(config, model_class, "init", ok, {OVGraph, ConfigJson}, << >>)
          /\ random_init' = RandomInitAfterLoad(ok)
          /\ IF ok
             THEN /\ config' = [config EXCEPT !.model = nw_original.model,
                                              !.export = nw_original.export]
                  /\ SetupGoes("v_cleanup")
             ELSE /\ UNCHANGED config
                  /\ SetupFails("LoadError")
    /\ UNCHANGED <<kind, config0, tmpdir, dirs, model_class, original_model,
                   original_export, nw_original, stageVars, mainVars, facadeVars>>

\* load_ovmodel_from_pretrained on the configured model.
OV_load_ovmodel_from_pretrained ==
    /\ pc = "v_load"
    /\ trace' = Append(trace, "load")
    /\ \E ok \in LoadOutcomes(config) :
          /\ FromPretrained(config, model_class, "init", ok, {OVGraph, ConfigJson}, << >>)
          /\ IF ok THEN SetupGoes("v_cleanup") ELSE SetupFails("LoadError")
    /\ UNCHANGED <<kind, config, config0, tmpdir, dirs, model_class, original_model,
                   original_export, nw_original, random_init, stageVars, mainVars, facadeVars>>

\* self.tmpdir.cleanup(), the last statement of __init__: the backend is ready.
OV_cleanup ==
    /\ pc = "v_cleanup"
    /\ trace' = Append(trace, "cleanup")
    /\ tmpdir' = "cleaned"
    /\ dirs' = {}
    /\ files' = Cleanup(files)
    /\ setup' = "ready"
    /\ pc' = "m_configure"
    /\ UNCHANGED <<kind, config, config0, model_class, pretrained_model,
                   original_model, original_export, nw_original, random_init,
                   loads, stageVars, mainVars, facadeVars, exc, outcome>>

\* ======================================================== run_experiment
setupVars == <<kind, config, config0, model_class, pretrained_model,
               original_model, original_export, nw_original, random_init,
               trace, loads, stageVars, setup>>

\* Mutant: clean() forgets the workspace.
BackendClean_keeps_workspace(td) == td

\* Backend.clean of either backend: the workspace is removed if the attribute
\* exists.
BackendClean(td) == IF td = "unset" THEN "unset" ELSE "cleaned"

\* One call of backend.clean(): super().clean(), the workspace removal, then
\* gc.collect().  A call that raises does so in super().clean(), its first
\* statement, before the workspace and the collector are touched.
CleanCall(ok) ==
    /\ clean_calls' = clean_calls + 1
    /\ main_trace' = Append(main_trace, "clean")
    /\ clean_log' = Append(clean_log, [before |-> tmpdir, returned |-> ok, gc |-> ok])
    /\ tmpdir' = IF ok THEN BackendClean(tmpdir) ELSE tmpdir
    /\ IF ok /\ BackendClean(tmpdir) = "cleaned"
       THEN dirs' = {} /\ files' = Cleanup(files)
       ELSE UNCHANGED <<dirs, files>>

\* A call inside the try block that returns or raises `err`.
TryCall(at, name, next, err) ==
    /\ pc = at
    /\ main_trace' = Append(main_trace, name)
    /\ \E ok \in BOOLEAN :
          IF ok THEN pc' = next /\ UNCHANGED <<exc, caught>>
          ELSE pc' = "m_except" /\ exc' = err /\ caught' = err
    /\ UNCHANGED <<setupVars, facadeVars, tmpdir, dirs, files, e, raised_error, clean_calls,
                   clean_log, outcome>>

\* backend.configure(experiment.backend)
Main_configure == TryCall("m_configure", "configure", "m_run", "ConfigureError")

\* benchmark.run(backend)
Main_run == TryCall("m_run", "run", "m_save", "RunError")

\* benchmark.save()
Main_save == TryCall("m_save", "save", "m_clean", "SaveError")

\* backend.clean() in the try block, then raised_error = False.
Main_clean ==
    /\ pc = "m_clean"
    /\ \E ok \in BOOLEAN :
          /\ CleanCall(ok)
          /\ IF ok THEN /\ raised_error' = FALSE
                        /\ pc' = "m_final"
                        /\ UNCHANGED <<exc, caught>>
             ELSE /\ UNCHANGED raised_error
                  /\ pc' = "m_except"
                  /\ exc' = "CleanError"
                  /\ caught' = "CleanError"
    /\ UNCHANGED <<setupVars, facadeVars, e, outcome>>

\* except Exception as e: the exception is bound to e and logged.
Main_except ==
    /\ pc = "m_except"
    /\ e' = exc
    /\ pc' = "m_except_clean"
    /\ UNCHANGED <<setupVars, facadeVars, tmpdir, dirs, files, exc, caught, raised_error,
                   clean_calls, clean_log, main_trace, outcome>>

\* The rest of the except clause: backend.clean(), raised_error = True.  When
\* the clause ends the name e is unbound again (the language deletes the
\* target of `except ... as` at the end of the clause).
Main_except_clean ==
    /\ pc = "m_except_clean"
    /\ e' = Unbound
    /\ \E ok \in BOOLEAN :
          /\ CleanCall(ok)
          /\ IF ok THEN /\ raised_error' = TRUE
                        /\ pc' = "m_final"
                        /\ UNCHANGED <<exc, outcome>>
             ELSE /\ UNCHANGED raised_error
                  /\ exc' = "CleanError"
                  /\ outcome' = "CleanError"
                  /\ pc' = "m_end"
    /\ UNCHANGED <<setupVars, facadeVars, caught>>

\* `raise e`: raises what e is bound to; reading an unbound local raises
\* UnboundLocalError instead.
Raise(name) == IF name = Unbound THEN "UnboundLocalError" ELSE name

\* if raised_error: raise e
Main_final ==
    /\ pc = "m_final"
    /\ IF raised_error = TRUE
       THEN exc' = Raise(e) /\ outcome' = Raise(e)
       ELSE outcome' = "returned" /\ UNCHANGED exc
    /\ pc' = "m_end"
    /\ UNCHANGED <<setupVars, facadeVars, tmpdir, dirs, files, mainVars>>

\* ------------------------------------------------------------------ Next
Next ==
    \/ ORT_validate_task
    \/ ORT_create_tmpdir
    \/ ORT_create_no_weights_model
    \/ ORT_load_with_no_weights
    \/ ORT_load_from_pretrained
    \/ ORT_repoint
    \/ ORT_optimize_onnx_files
    \/ ORT_quantize_guard
    \/ ORT_quantization_config
    \/ ORT_calibration_dataset
    \/ ORT_calibration_config
    \/ ORT_quantize_component
    \/ ORT_quantize_save
    \/ ORT_reload
    \/ ORT_validate_provider
    \/ ORT_cleanup
    \/ OV_validate_task
    \/ OV_create_tmpdir
    \/ OV_create_no_weights_model
    \/ OV_load_automodel_with_no_weights
    \/ OV_load_automodel_from_pretrained
    \/ OV_quantize_automodel
    \/ OV_reload
    \/ OV_load_ovmodel_with_no_weights
    \/ OV_load_ovmodel_from_pretrained
    \/ OV_cleanup
    \/ Main_configure
    \/ Main_run
    \/ Main_save
    \/ Main_clean
    \/ Main_except
    \/ Main_except_clean
    \/ Main_final

Spec == Init /\ [][Next]_vars

\* ================================================================ claims
Range(seq) == {seq[i] : i \in 1..Len(seq)}
Count(seq, x) == Cardinality({i \in 1..Len(seq) : seq[i] = x})
Last(seq) == seq[Len(seq)]
ConfigRestored == config.model = config0.model /\ config.export = config0.export

\* C1: in run_experiment, whenever backend.configure, benchmark.run or
\* benchmark.save raises (and the clean-up itself returns), backend.clean()
\* has been executed and the exception that reaches the caller is the one
\* that was raised.
C1_SameExceptionReraised ==
    (/\ pc = "m_end"
     /\ caught \in {"ConfigureError", "RunError", "SaveError"}
     /\ outcome # "CleanError")
        => (clean_calls >= 1 /\ outcome = caught)

\* C2: there is no outcome in which a backend's setup has failed after the
\* workspace was created and the workspace has not been cleaned.
C2_FailedSetupCleansWorkspace ==
    (setup = "failed" /\ tmpdir # "unset") => tmpdir = "cleaned"

\* C3: when ORTBackend setup is aborted by a failure raised inside the
\* Optimize stage, the Quantize stage or the reload after them, config.model
\* and config.export have their pre-setup values when the error reaches the
\* caller.
C3_FailureRestoresConfig ==
    (/\ kind = "ort"
     /\ setup = "failed"
     /\ Last(trace) \in {"optimize", "quantize", "generate_dataset", "fit",
                         "quantize_component", "reload"})
        => ConfigRestored

\* C4: whenever the setup of either backend completes, config.model and
\* config.export equal the values they had when the setup began.
C4_ReadyKeepsConfig == setup = "ready" => ConfigRestored

C4_Witness ==
    /\ setup = "ready"
    /\ kind = "ort"
    /\ config0.no_weights /\ config0.export
    /\ "optimize" \in Range(trace)
    /\ "save_metadata" \in Range(trace)

\* C5: in quantize_onnx_files, when calibration is requested and more than
\* one component is enumerated, the stage has raised its unsupported
\* configuration error, and neither the dataset generator nor any quantizer
\* fit or run has been invoked.
InQuantize ==
    /\ kind = "ort"
    /\ "quantize" \in Range(trace)
    /\ "save_metadata" \notin Range(trace)

C5_CalibrationGuardFirst ==
    (/\ InQuantize
     /\ is_calibrated(config)
     /\ Cardinality(onnx_files_names(config, files)) > 1)
        => /\ setup = "failed"
           /\ exc = "NotImplementedError(calibration)"
           /\ Range(trace) \cap {"generate_dataset", "fit", "quantize_component"} = {}
           /\ quantized = << >>

C5_Witness ==
    /\ InQuantize
    /\ is_calibrated(config)
    /\ Cardinality(onnx_files_names(config, files)) > 1
    /\ exc = "NotImplementedError(calibration)"

\* C6: in ORTBackend, for optimization, quantization and calibration alike,
\* the configuration a stage uses comes from the auto preset whenever the
\* preset is set (the manual flag being set or not), and from the manual
\* options exactly when only the manual flag is set.
Expected(auto, manual) == IF auto # None THEN "auto" ELSE IF manual THEN "manual" ELSE Unbound

C6_AutoWinsOverManual ==
    kind = "ort" =>
        /\ ("optimize" \in Range(trace) =>
                opt_config = Expected(config0.auto_optimization, config0.optimization))
        /\ opt_config # Unbound => "optimize" \in Range(trace)
        /\ quant_config \in {Unbound, Expected(config0.auto_quantization, config0.quantization)}
        /\ calib_config \in {Unbound, Expected(config0.auto_calibration, config0.calibration)}
        /\ \A i \in 1..Len(quantized) :
              /\ quantized[i].config =
                    Expected(config0.auto_quantization, config0.quantization)
              /\ quantized[i].config # Unbound
              /\ quantized[i].range =
                    IF is_calibrated(config0)
                    THEN Expected(config0.auto_calibration, config0.calibration)
                    ELSE None

C6_Witness ==
    /\ kind = "ort"
    /\ config0.optimization /\ config0.auto_optimization # None
    /\ config0.quantization /\ config0.auto_quantization # None
    /\ config0.calibration /\ config0.auto_calibration # None
    /\ opt_config = "auto"
    /\ Len(quantized) = 1
    /\ quantized[1].config = "auto" /\ quantized[1].range = "auto"

\* C7: in both backends, when the Optimize or the Quantize stage has run and
\* the backend is ready, exactly one reload was made, after every stage
\* operation, with export off, of the latest artifact (the quantized directory
\* if Quantize ran, else the optimized one), and the held model is its result.
StageOps == {"load", "optimize", "quantize", "generate_dataset", "fit",
             "quantize_component", "save_metadata"}
Index(seq, x) == CHOOSE i \in 1..Len(seq) : seq[i] = x

C7_ReloadAfterStages ==
    (setup = "ready" /\ Range(trace) \cap {"optimize", "quantize"} # {}) =>
        /\ Count(trace, "reload") = 1
        /\ \A i \in 1..Len(trace) : trace[i] \in StageOps => i < Index(trace, "reload")
        /\ Cardinality({i \in 1..Len(loads) : loads[i].site = "reload"}) = 1
        /\ LET r == Last(loads)
           IN /\ r.site = "reload" /\ r.ok
              /\ r.export = FALSE
              /\ r.path = IF "quantize" \in Range(trace) THEN QuantizedDir ELSE OptimizedDir
              /\ pretrained_model.path = r.path
              /\ pretrained_model.cls = r.cls
              /\ pretrained_model.export = r.export

C7_Witness ==
    /\ setup = "ready"
    /\ kind = "ort"
    /\ config0.export
    /\ "optimize" \in Range(trace)
    /\ "quantize_component" \in Range(trace)
    /\ pretrained_model.path = QuantizedDir

\* C8: in ORTBackend setup the first provider is validated at most once and
\* after the final load; the validation raises the mismatch error if and only
\* if the first provider of the held model differs from the configured one,
\* and the backend is never ready with a mismatching first provider.
C8_ProviderValidatedAfterFinalLoad ==
    kind = "ort" =>
        /\ Count(trace, "validate_provider") <= 1
        /\ exc = "ValueError(provider)" => "validate_provider" \in Range(trace)
        /\ "validate_provider" \in Range(trace) =>
              /\ \A j \in 1..Len(trace) :
                    j > Index(trace, "validate_provider") => trace[j] = "cleanup"
              /\ Last(loads).ok
              /\ pretrained_model.path = Last(loads).path
              /\ Last(loads).site =
                    IF is_optimized(config0) \/ is_quantized(config0)
                    THEN "reload" ELSE "init"
              /\ (setup = "failed" /\ exc = "ValueError(provider)")
                    <=> (pretrained_model.providers[1] # config0.provider)
        /\ setup = "ready" =>
              /\ Count(trace, "validate_provider") = 1
              /\ pretrained_model.providers[1] = config0.provider

C8_Witness ==
    /\ kind = "ort"
    /\ setup = "failed"
    /\ exc = "ValueError(provider)"
    /\ "reload" \in Range(trace)
    /\ Len(pretrained_model.providers) = 1

\* C9 (as claimed): in both backends task validation comes first: for an
\* unsupported task the error is raised before the workspace is created and
\* before any load; for a supported task the class is resolved once and every
\* load of the backend uses that class.
Supported ==
    IF kind = "ort"
    THEN config0.task \in DOMAIN TASKS_TO_ORTSD \cup DOMAIN TASKS_TO_ORTMODELS
    ELSE config0.task \in DOMAIN TASKS_TO_OVMODEL

ValidatedFirst ==
    /\ trace # << >> => trace[1] = "validate_task"
    /\ Count(trace, "validate_task") <= 1
    /\ (trace # << >> /\ ~Supported) =>
          /\ setup = "failed"
          /\ exc = "NotImplementedError(task)"
          /\ tmpdir = "unset"
          /\ loads = << >>
          /\ trace = <<"validate_task">>
          /\ model_class = Unbound
    /\ (trace # << >> /\ Supported) => model_class # Unbound

C9_EveryLoadUsesResolvedClass ==
    /\ ValidatedFirst
    /\ \A i \in 1..Len(loads) : loads[i].cls = model_class

\* C9 (amended): as claimed, except that the framework-model load of the
\* OVBackend quantization path uses the base class's automodel_class; every
\* other load uses the class validate_task resolved.
C9_BackendLoadsUseResolvedClass ==
    /\ ValidatedFirst
    /\ \A i \in 1..Len(loads) :
          loads[i].cls = IF kind = "ov" /\ config0.quantization /\ loads[i].site = "init"
                         THEN AutoModelClass ELSE model_class

C9_Witness ==
    /\ kind = "ov"
    /\ setup = "ready"
    /\ config0.quantization
    /\ Len(loads) = 2
    /\ loads[1].cls = AutoModelClass
    /\ loads[2].cls = model_class

\* C10: ORTBackend setup enters its stages only in the order task validation,
\* load, Optimize, Quantize, reload, provider validation, cleanup, each at
\* most once; a ready backend went through validation, load, provider
\* validation and cleanup; and when Optimize ran, every quantizer reads the
\* optimized directory.
Rank(op) ==
    CASE op = "validate_task" -> 1
      [] op = "load" -> 2
      [] op = "optimize" -> 3
      [] op = "quantize" -> 4
      [] op = "reload" -> 5
      [] op = "validate_provider" -> 6
      [] op = "cleanup" -> 7
      [] OTHER -> 0

C10_StagesInOrder ==
    kind = "ort" =>
        /\ \A i, j \in 1..Len(trace) :
              (i < j /\ Rank(trace[i]) > 0 /\ Rank(trace[j]) > 0)
                  => Rank(trace[i]) < Rank(trace[j])
        /\ setup = "ready" =>
              {"validate_task", "load", "validate_provider", "cleanup"} \subseteq Range(trace)
        /\ \A i \in 1..Len(quantized) :
              quantized[i].source = IF "optimize" \in Range(trace) THEN OptimizedDir
                                    ELSE SaveDir

C10_Witness ==
    /\ kind = "ort"
    /\ setup = "ready"
    /\ "optimize" \in Range(trace)
    /\ Len(quantized) >= 2
    /\ quantized[2].source = OptimizedDir


\* C11: in ORTBackend the Optimize stage runs only if an optimization is
\* configured (preset or flag) and the Quantize stage only if a quantization
\* is; a ready backend ran each of them exactly when it is configured; when
\* neither is, there is at most one load (exactly one at ready), no reload,
\* and config.model / config.export are written by nothing but the no-weights
\* repointing.
OptimizationRequested == (config0.auto_optimization # None) \/ config0.optimization
QuantizationRequested == (config0.auto_quantization # None) \/ config0.quantization

C11_StagesGatedByConfig ==
    kind = "ort" =>
        /\ "optimize" \in Range(trace) => OptimizationRequested
        /\ "quantize" \in Range(trace) => QuantizationRequested
        /\ setup = "ready" =>
              /\ ("optimize" \in Range(trace)) <=> OptimizationRequested
              /\ ("quantize" \in Range(trace)) <=> QuantizationRequested
        /\ (~OptimizationRequested /\ ~QuantizationRequested) =>
              /\ Len(loads) <= 1
              /\ setup = "ready" => Len(loads) = 1
              /\ "reload" \notin Range(trace)
              /\ original_model = Unbound /\ original_export = Unbound
              /\ config.export = config0.export
              /\ \/ config.model = config0.model
                 \/ config0.no_weights /\ config.model = NoWeightsDir

C11_Witness ==
    /\ kind = "ort"
    /\ setup = "ready"
    /\ ~OptimizationRequested /\ ~QuantizationRequested
    /\ config0.no_weights
    /\ Len(loads) = 1


\* ============================================== the backend object alone
\* The backend class used directly: the object is constructed, and once the
\* constructor has returned or raised, its owner calls clean() any number of
\* times (teardown from whatever state the constructor left).
SetupNext ==
    \/ ORT_validate_task
    \/ ORT_create_tmpdir
    \/ ORT_create_no_weights_model
    \/ ORT_load_with_no_weights
    \/ ORT_load_from_pretrained
    \/ ORT_repoint
    \/ ORT_optimize_onnx_files
    \/ ORT_quantize_guard
    \/ ORT_quantization_config
    \/ ORT_calibration_dataset
    \/ ORT_calibration_config
    \/ ORT_quantize_component
    \/ ORT_quantize_save
    \/ ORT_reload
    \/ ORT_validate_provider
    \/ ORT_cleanup
    \/ OV_validate_task
    \/ OV_create_tmpdir
    \/ OV_create_no_weights_model
    \/ OV_load_automodel_with_no_weights
    \/ OV_load_automodel_from_pretrained
    \/ OV_quantize_automodel
    \/ OV_reload
    \/ OV_load_ovmodel_with_no_weights
    \/ OV_load_ovmodel_from_pretrained
    \/ OV_cleanup

\* clean() called by the owner of the object.
Teardown_clean ==
    /\ setup \in {"ready", "failed"}
    /\ clean_calls < MaxCleanCalls
    /\ \E ok \in BOOLEAN :
          /\ CleanCall(ok)
          /\ exc' = IF ok THEN exc ELSE "CleanError"
    /\ UNCHANGED <<setupVars, facadeVars, pc, caught, e, raised_error, outcome>>

NextTeardown == SetupNext \/ Teardown_clean

SpecTeardown == Init /\ [][NextTeardown]_vars

\* C12: the workspace is gone when setup has completed; after a clean() call
\* has returned the workspace does not exist, whatever state the constructor
\* left (never created, still on disk after a failure, already deleted); a
\* further clean() call leaves that unchanged; and every clean() call that
\* returns has run the garbage collector.
WorkspaceGone ==
    /\ tmpdir # "exists"
    /\ dirs = {}
    /\ \A p \in WorkspaceDirs : files[p] = {}

C12_CleanRemovesWorkspace ==
    /\ setup = "ready" => WorkspaceGone
    /\ (\E i \in 1..Len(clean_log) : clean_log[i].returned) => WorkspaceGone
    /\ \A i \in 1..Len(clean_log) : clean_log[i].returned => clean_log[i].gc
    /\ Len(clean_log) = clean_calls

C12_Witness ==
    /\ setup = "failed"
    /\ Len(clean_log) = 2
    /\ clean_log[1].before = "exists" /\ clean_log[1].returned
    /\ clean_log[2].before = "cleaned" /\ clean_log[2].returned
    /\ WorkspaceGone


\* C13: in both backends the random-initialization context is active only
\* while a no-weights load is in progress: it is entered only when no_weights
\* is set, the no-weights load runs inside it, it is released when that load
\* returns or fails, and it is never active during the Optimize stage, the
\* Quantize stage or the reload.
NoWeightsLoadPcs == {"o_nw_load", "v_auto_nw_load", "v_nw_load"}

C13_RandomInitOnlyAroundNoWeightsLoad ==
    /\ random_init => (config0.no_weights /\ pc \in NoWeightsLoadPcs)
    /\ pc \in NoWeightsLoadPcs => random_init
    /\ setup \in {"ready", "failed"} => ~random_init
    /\ \A i \in 1..Len(loads) :
          loads[i].random_init <=> (config0.no_weights /\ i = 1)
    /\ \A i \in 1..Len(loads) : loads[i].site = "reload" => ~loads[i].random_init

C13_Witness ==
    /\ config0.no_weights
    /\ setup = "failed"
    /\ Len(loads) = 2
    /\ loads[1].random_init /\ loads[1].ok
    /\ ~loads[2].random_init /\ ~loads[2].ok


\* C14: in both backends, when no quantization is configured (ORT: neither
\* the flag nor the preset; OV: the flag off) the calibration dataset
\* generator is never invoked and no calibration fit is run, whatever the
\* calibration fields are.
C14_NoCalibrationWithoutQuantization ==
    ~QuantizationRequested =>
        /\ Range(trace) \cap {"quantize", "generate_dataset", "fit"} = {}
        /\ calib_config = Unbound
        /\ quantized = << >>

C14_Witness ==
    /\ kind = "ort"
    /\ setup = "ready"
    /\ ~QuantizationRequested
    /\ config0.calibration /\ config0.auto_calibration # None
    /\ "optimize" \in Range(trace)


\* ====================================================== inference facade
\* What a loaded model declares: its input names, under one of two attribute
\* names, or under neither.
Signatures ==
    {[attr |-> a, names |-> n] :
        a \in {"inputs_names", "input_names"},
        n \in SUBSET {"input_ids", "token_type_ids", "position_ids"}}
    \cup {[attr |-> "none", names |-> {}]}

\* ORTBackend.inputs_names
inputs_names(sig) ==
    IF sig.attr = "inputs_names" THEN sig.names
    ELSE IF sig.attr = "input_names" THEN sig.names
    ELSE {}

\* value.to(device)
To(tensor, dev) == dev

\* Mutant: every key the model does not declare is dropped.
ORTBackend_prepare_inputs_drops_undeclared(lib, dev, names, inputs) ==
    IF lib = "diffusers"
    THEN IF "prompt" \in Keys(inputs)
         THEN [raised |-> "none",
               value |-> [k \in InputKeys |-> IF k = "prompt" THEN inputs[k] ELSE Absent]]
         ELSE [raised |-> "KeyError", value |-> NoInputs]
    ELSE [raised |-> "none",
          value |-> [k \in InputKeys |->
                        IF k \notin Keys(inputs) \/ k \notin names THEN Absent
                        ELSE IF k \notin PROBLEMATIC_INPUTS THEN To(inputs[k], dev)
                        ELSE inputs[k]]]

\* ORTBackend.prepare_inputs, after super().prepare_inputs(inputs) has handed
\* the mapping back: what it returns, or the exception it raises.
ORTBackend_prepare_inputs(lib, dev, names, inputs) ==
    IF lib = "diffusers"
    THEN IF "prompt" \in Keys(inputs)
         THEN [raised |-> "none",
               value |-> [k \in InputKeys |-> IF k = "prompt" THEN inputs[k] ELSE Absent]]
         ELSE [raised |-> "KeyError", value |-> NoInputs]
    ELSE [raised |-> "none",
          value |-> [k \in InputKeys |->
                        IF k \notin Keys(inputs) THEN Absent
                        ELSE IF k \notin PROBLEMATIC_INPUTS THEN To(inputs[k], dev)
                        ELSE IF k \notin names THEN Absent
                        ELSE inputs[k]]]

\* OVBackend.prepare_inputs
OVBackend_prepare_inputs(lib, inputs) ==
    IF lib = "diffusers"
    THEN IF "prompt" \in Keys(inputs)
         THEN [raised |-> "none",
               value |-> [k \in InputKeys |-> IF k = "prompt" THEN inputs[k] ELSE Absent]]
         ELSE [raised |-> "KeyError", value |-> NoInputs]
    ELSE [raised |-> "none", value |-> inputs]

objectVars == <<setupVars, pc, tmpdir, dirs, files, exc, outcome, mainVars>>

ORT_prepare_inputs ==
    /\ kind = "ort"
    /\ setup = "ready"
    /\ \E inputs \in InputMappings :
          last_call' = [op |-> "prepare_inputs", inputs |-> inputs, kwargs |-> NoKwargs,
                        target |-> NoTarget, mode |-> inference_mode,
                        result |-> ORTBackend_prepare_inputs(
                                       library, device, inputs_names(signature), inputs)]
    /\ UNCHANGED <<objectVars, library, device, signature, inference_mode>>

OV_prepare_inputs ==
    /\ kind = "ov"
    /\ setup = "ready"
    /\ \E inputs \in InputMappings :
          last_call' = [op |-> "prepare_inputs", inputs |-> inputs, kwargs |-> NoKwargs,
                        target |-> NoTarget, mode |-> inference_mode,
                        result |-> OVBackend_prepare_inputs(library, inputs)]
    /\ UNCHANGED <<objectVars, library, device, signature, inference_mode>>

\* Prepared inputs and keyword arguments a benchmark hands to the facade.
FacadeInputs == {m \in InputMappings : Keys(m) = {"input_ids", "attention_mask"}}
FacadeKwargs == {[k \in KwargNames |-> IF k \in ks THEN "20" ELSE Absent] :
                    ks \in SUBSET KwargNames}

\* The mode the body of a facade method runs in: @torch.inference_mode()
\* switches the mode on, an undecorated method runs in the caller's mode.
BodyMode(decorated, ambient) == IF decorated THEN TRUE ELSE ambient

\* The mode after the method has returned or raised: the decorator restores
\* the mode it found.
ModeAfter(decorated, ambient) == ambient

\* One facade method of backend k: it calls `capability` of the loaded model
\* with **inputs, **kwargs; the model returns or raises.
FacadeCall(k, op, capability, decorated) ==
    /\ kind = k
    /\ setup = "ready"
    /\ \E inputs \in FacadeInputs, kwargs \in FacadeKwargs, ok \in BOOLEAN :
          last_call' = [op |-> op, inputs |-> inputs, kwargs |-> kwargs,
                        target |-> [capability |-> capability, inputs |-> inputs,
                                    kwargs |-> kwargs],
                        mode |-> BodyMode(decorated, inference_mode),
                        result |-> [raised |-> IF ok THEN "none" ELSE "ModelError",
                                    value |-> NoInputs]]
    /\ inference_mode' = ModeAfter(decorated, inference_mode)
    /\ UNCHANGED <<objectVars, library, device, signature>>

ORT_forward == FacadeCall("ort", "forward", "forward", TRUE)
ORT_prefill == FacadeCall("ort", "prefill", "generate", TRUE)
ORT_generate == FacadeCall("ort", "generate", "generate", TRUE)
ORT_call == FacadeCall("ort", "call", "__call__", TRUE)

OV_forward == FacadeCall("ov", "forward", "forward", FALSE)
OV_prefill == FacadeCall("ov", "prefill", "generate", FALSE)
OV_generate == FacadeCall("ov", "generate", "generate", FALSE)
OV_call == FacadeCall("ov", "call", "__call__", FALSE)

\* A configuration that asks for no extra stage: the facade reads none of the
\* stage fields.
StageFree(cfg) ==
    /\ ~cfg.no_weights /\ ~cfg.use_merged
    /\ ~is_optimized(cfg) /\ ~is_quantized(cfg) /\ ~is_calibrated(cfg)

\* A backend constructed from a stage-free configuration and then used for
\* inference: library, device and the model's signature are drawn; the
\* caller has not switched inference mode on.
InitInference ==
    /\ InitBackend
    /\ StageFree(config)
    /\ library \in Libraries
    /\ device \in Devices
    /\ signature \in Signatures
    /\ inference_mode = FALSE

NextInference ==
    \/ ORT_validate_task
    \/ ORT_create_tmpdir
    \/ ORT_load_from_pretrained
    \/ ORT_repoint
    \/ ORT_validate_provider
    \/ ORT_cleanup
    \/ OV_validate_task
    \/ OV_create_tmpdir
    \/ OV_load_ovmodel_from_pretrained
    \/ OV_cleanup
    \/ ORT_prepare_inputs
    \/ OV_prepare_inputs
    \/ ORT_forward
    \/ ORT_prefill
    \/ ORT_generate
    \/ ORT_call
    \/ OV_forward
    \/ OV_prefill
    \/ OV_generate
    \/ OV_call

SpecInference == InitInference /\ [][NextInference]_vars

PreparedBy(k) ==
    /\ kind = k
    /\ last_call.op = "prepare_inputs"
    /\ last_call.result.raised = "none"

\* C15: ORTBackend.prepare_inputs, for a library other than diffusers, returns
\* a mapping in which every retained tensor is on the target device and from
\* which exactly the inputs the loaded model does not declare are gone; for
\* diffusers it returns only the prompt field.
C15_PreparedInputsMovedAndFiltered ==
    PreparedBy("ort") =>
        LET in == last_call.inputs
            out == last_call.result.value
        IN  IF library = "diffusers"
            THEN Keys(out) = {"prompt"} /\ out["prompt"] = in["prompt"]
            ELSE /\ \A k \in Keys(out) : out[k] = device
                 /\ Keys(out) = Keys(in) \cap inputs_names(signature)


CalibrationRequested == config0.calibration \/ config0.auto_calibration # None
QuantizedFiles == {quantized[i].file : i \in 1..Len(quantized)}

\* C16: in quantize_onnx_files every enumerated component is quantized
\* exactly once into the quantized-model directory; a component's quantize
\* call is preceded by its calibration fit if and only if calibration is
\* requested (otherwise the range passed is empty); and the metadata is copied
\* only after all components have been quantized.
C16_EachComponentQuantizedOnce ==
    kind = "ort" =>
        /\ \A i, j \in 1..Len(quantized) : quantized[i].file = quantized[j].file => i = j
        /\ pc = "q_loop" =>
              /\ QuantizedFiles \cup Range(todo) = onnx_files_names(config, files)
              /\ QuantizedFiles \cap Range(todo) = {}
              /\ Len(todo) = Cardinality(Range(todo))
              /\ files[QuantizedDir] = QuantizedFiles
              /\ "save_metadata" \notin Range(trace)
        /\ \A i \in 1..Len(quantized) :
              /\ quantized[i].range = None <=> ~CalibrationRequested
              /\ quantized[i].config # Unbound
        /\ \A j \in 1..Len(trace) :
              /\ trace[j] = "quantize_component" =>
                    (CalibrationRequested <=> (j > 1 /\ trace[j - 1] = "fit"))
              /\ trace[j] = "fit" => CalibrationRequested
        /\ Count(trace, "quantize_component") = Len(quantized)
        /\ "save_metadata" \in Range(trace) =>
              /\ todo = << >>
              /\ Count(trace, "save_metadata") = 1
              /\ \A j \in 1..Len(trace) :
                    trace[j] = "quantize_component" => j < Index(trace, "save_metadata")
              /\ ConfigJson \in files[QuantizedDir] \/ tmpdir # "exists"

C16_Witness ==
    /\ "save_metadata" \in Range(trace)
    /\ Len(quantized) = 2
    /\ quantized[1].range = None /\ quantized[2].range = None
    /\ tmpdir = "exists"
    /\ files[QuantizedDir] = QuantizedFiles \cup {ConfigJson}


\* C17: at every point of a backend's setup the workspace holds
\* no_weights_model only if no_weights is set, optimized only if the Optimize
\* stage has started, quantized_model only if the Quantize stage has started;
\* with no_weights, optimization and quantization all off it holds none.
C17_SubdirectoriesOnDemand ==
    /\ dirs \subseteq WorkspaceDirs
    /\ \A d \in WorkspaceDirs : files[d] # {} => d \in dirs
    /\ NoWeightsDir \in dirs => config0.no_weights
    /\ OptimizedDir \in dirs => (OptimizationRequested /\ "optimize" \in Range(trace))
    /\ QuantizedDir \in dirs => (QuantizationRequested /\ "quantize" \in Range(trace))
    /\ (~config0.no_weights /\ ~OptimizationRequested /\ ~QuantizationRequested) =>
          dirs = {}

C17_Witness ==
    /\ setup = "running"
    /\ tmpdir = "exists"
    /\ dirs = WorkspaceDirs
    /\ \A d \in WorkspaceDirs : files[d] # {}


\* C18: OVBackend setup takes exactly one of three paths.  With quantization:
\* one framework-model load (of the synthetic directory if no_weights, else of
\* the configured model), then quantize, then one OV load of the quantized
\* directory with export off, and never an OV no-weights load.  Otherwise with
\* no_weights: one OV load of the synthetic directory with export on whatever
\* the configured export.  Otherwise: one OV load of the configured model with
\* the configured export.
C18_OVSetupPaths ==
    kind = "ov" =>
        IF config0.quantization
        THEN /\ Len(loads) <= 2
             /\ \A i \in 1..Len(loads) :
                   IF i = 1
                   THEN /\ loads[i].cls = AutoModelClass
                        /\ loads[i].site = "init"
                        /\ loads[i].path = IF config0.no_weights THEN NoWeightsDir
                                           ELSE config0.model
                        /\ loads[i].random_init = config0.no_weights
                   ELSE /\ loads[i].cls = model_class
                        /\ loads[i].cls # AutoModelClass
                        /\ loads[i].site = "reload"
                        /\ loads[i].path = QuantizedDir
                        /\ loads[i].export = FALSE
                        /\ ~loads[i].random_init
                        /\ loads[1].ok
                        /\ Count(trace, "quantize") = 1
                        /\ Index(trace, "load") < Index(trace, "quantize")
                        /\ Index(trace, "quantize") < Index(trace, "reload")
             /\ setup = "ready" => Len(loads) = 2 /\ Count(trace, "load") = 1
        ELSE /\ Len(loads) <= 1
             /\ Range(trace) \cap {"quantize", "reload"} = {}
             /\ \A i \in 1..Len(loads) :
                   /\ loads[i].cls = model_class
                   /\ loads[i].cls # AutoModelClass
                   /\ loads[i].site = "init"
                   /\ IF config0.no_weights
                      THEN /\ loads[i].path = NoWeightsDir
                           /\ loads[i].export = TRUE
                           /\ loads[i].random_init
                      ELSE /\ loads[i].path = config0.model
                           /\ loads[i].export = config0.export
                           /\ ~loads[i].random_init
             /\ setup = "ready" => Len(loads) = 1

C18_Witness ==
    /\ kind = "ov"
    /\ setup = "ready"
    /\ ~config0.quantization /\ config0.no_weights /\ ~config0.export
    /\ Len(loads) = 1
    /\ loads[1].path = NoWeightsDir /\ loads[1].export /\ loads[1].ok
    /\ config = config0


FacadeOps == {"forward", "prefill", "generate", "call"}
EquivalentCapability(op) ==
    IF op = "forward" THEN "forward"
    ELSE IF op \in {"prefill", "generate"} THEN "generate"
    ELSE "__call__"

\* C19: in both backends each facade operation (forward, prefill, generate,
\* call) hands its inputs and kwargs to the loaded model's equivalent
\* capability and runs inside the inference-only context, which is left when
\* the operation returns or fails.
C19_FacadeForwardsInInferenceMode ==
    last_call.op \in FacadeOps =>
        /\ last_call.target.capability = EquivalentCapability(last_call.op)
        /\ last_call.target.inputs = last_call.inputs
        /\ last_call.target.kwargs = last_call.kwargs
        /\ last_call.mode = TRUE
        /\ inference_mode = FALSE


\* C20: in every execution of run_experiment that reaches the try block,
\* backend.clean() is invoked exactly once, whether the run succeeds or
\* configure, run, save or clean itself raises; on the success path the calls
\* are configure, run, save, clean, in this order.
C20_CleanExactlyOnce ==
    /\ (setup = "ready" /\ pc = "m_end") => Count(main_trace, "clean") = 1
    /\ Count(main_trace, "clean") <= 1
    /\ outcome = "returned" => main_trace = <<"configure", "run", "save", "clean">>


\* The input names the loaded model declares, under either attribute.
Declared == IF signature.attr = "none" THEN {} ELSE signature.names

\* C21: in ORTBackend.prepare_inputs for a library other than diffusers, the
\* keys of the result are the keys of the input minus those that are both in
\* {token_type_ids, position_ids} and not declared by the loaded model; a key
\* outside that set is never dropped, and no key is added.
C21_OnlyUndeclaredProblematicKeysDropped ==
    (PreparedBy("ort") /\ library # "diffusers") =>
        LET in == Keys(last_call.inputs)
            out == Keys(last_call.result.value)
        IN  /\ out = in \ {k \in {"token_type_ids", "position_ids"} : k \notin Declared}
            /\ \A k \in in : k \notin {"token_type_ids", "position_ids"} => k \in out
            /\ out \subseteq in

C21_Witness ==
    /\ PreparedBy("ort")
    /\ library = "transformers"
    /\ Declared = {"token_type_ids"}
    /\ Keys(last_call.inputs) =
          {"input_ids", "attention_mask", "token_type_ids", "position_ids"}
    /\ Keys(last_call.result.value) = {"input_ids", "attention_mask", "token_type_ids"}


Bound == {"auto", "manual"}

\* C22: whenever ORTBackend's Optimize or Quantize stage is entered the
\* configuration it uses is bound, by the auto branch when the preset is set
\* and by the manual branch otherwise; when calibration is requested a
\* calibration configuration is bound before the first fit; no optimizer,
\* fit or quantize call is made with an unbound configuration.
C22_StageConfigurationsBound ==
    kind = "ort" =>
        /\ "optimize" \in Range(trace) =>
              /\ opt_config \in Bound
              /\ opt_config = "auto" <=> config0.auto_optimization # None
              /\ opt_config = "manual" <=>
                    (config0.auto_optimization = None /\ config0.optimization)
        /\ (pc \in {"q_dataset", "q_calibration", "q_loop"}
              \/ Range(trace) \cap {"fit", "quantize_component"} # {}) =>
              /\ quant_config \in Bound
              /\ quant_config = "auto" <=> config0.auto_quantization # None
              /\ quant_config = "manual" <=>
                    (config0.auto_quantization = None /\ config0.quantization)
        /\ "fit" \in Range(trace) =>
              /\ calib_config \in Bound
              /\ quant_config \in Bound
              /\ calib_config = "auto" <=> config0.auto_calibration # None
              /\ calib_config = "manual" <=>
                    (config0.auto_calibration = None /\ config0.calibration)
        /\ \A i \in 1..Len(quantized) :
              /\ quantized[i].config \in Bound
              /\ quantized[i].range \in Bound \cup {None}

C22_Witness ==
    /\ kind = "ort"
    /\ setup = "ready"
    /\ opt_config = "manual" /\ quant_config = "manual" /\ calib_config = "manual"
    /\ Len(quantized) = 1
    /\ quantized[1].config = "manual" /\ quantized[1].range = "manual"
    /\ {"optimize", "fit", "quantize_component"} \subseteq Range(trace)

====
